---- MODULE Spec2Model ----
(***************************************************************************)
(* A model of butterfly's metadata database adapter (Unqlite) and of its   *)
(* request validation (API, Query).                                        *)
(*                                                                         *)
(* db      the key-value store of Unqlite.db: channel path -> dataset path *)
(* tables  the collections of Unqlite.db: table path -> stored records     *)
(* recent  history: the dataset path last handed to add_path per channel   *)
(* last    history: the last database call, its argument (get_path), what  *)
(*         it returned, and whether it changed what was stored             *)
(* query   the Query of the request being served, or NoQuery               *)
(* response  what the last call of the access layer returned or raised     *)
(* resolve   the position of _get_group_dict in its loop over the levels   *)
(* calls     per caller of the database, the call of add_entry it is in    *)
(***************************************************************************)
EXTENDS Integers, Sequences, FiniteSets, TLC

VARIABLES db, tables, recent, last, query, response, resolve, calls

dbvars == <<db, tables, recent, last>>

accessvars == <<query, response, resolve>>

vars == <<db, tables, recent, last, query, response, resolve, calls>>

(***************************************************************************)
(* Bounds of the model.                                                    *)
(***************************************************************************)
\* The most records the whole database holds before store is refused.
MaxRecords == 2

\* The values of an entry's field.
FieldValues == {0, 1}

\* The dataset paths, and the channel paths handed to add_path and get_path.
Paths == {"p1", "p2"}

ChannelPaths == {"c1", "c2", "p1"}

\* The table categories, RUNTIME.DB.TABLE.
Tables == {"neuron", "synapse"}

\* RUNTIME.DB.TABLE[table].KEY_LIST: the natural-key fields of a table.
KEY_LIST(table) == IF table = "neuron" THEN {"a"} ELSE {"a", "b"}

\* The entries handed to add_entry: dicts over the fields a and b.
Entries == UNION {[D -> FieldValues] : D \in {{"a"}, {"a", "b"}}}

(***************************************************************************)
(* The unqlite store.                                                      *)
(***************************************************************************)
\* Database.add_table: the name of the collection of a table and a path.
TablePath(table, path) == <<table, path>>

\* A create that empties a collection that exists.
CreateFresh(colls, tp) ==
    [t \in DOMAIN colls \cup {tp} |-> IF t = tp THEN <<>> ELSE colls[t]]

\* collect.create(): a new empty collection, or the existing one untouched.
Create(colls, tp) ==
    IF tp \in DOMAIN colls THEN colls
    ELSE [t \in DOMAIN colls \cup {tp} |-> IF t = tp THEN <<>> ELSE colls[t]]

\* collect.store(entry): appends the entry under the next record id.
Store(recs, entry) == Append(recs, [id |-> Len(recs), data |-> entry])

\* collect.update(id, entry): the record with that id now holds the entry.
Update(recs, id, entry) ==
    [i \in DOMAIN recs |->
        IF recs[i].id = id THEN [id |-> id, data |-> entry] ELSE recs[i]]

\* Database.get_entry(table, path, **find_entry): the records equal to
\* find_entry on each of its keys, as collect.filter returns them: in
\* stored order.
GetEntry(recs, find_entry) ==
    LET Same(r) == \A k \in DOMAIN find_entry :
                      k \in DOMAIN r.data /\ r.data[k] = find_entry[k]
    IN SelectSeq(recs, Same)

\* The number of records stored in all collections.
RECURSIVE CountRecords(_, _)
CountRecords(colls, tps) ==
    IF tps = {} THEN 0
    ELSE LET tp == CHOOSE t \in tps : TRUE
         IN Len(colls[tp]) + CountRecords(colls, tps \ {tp})

TotalRecords == CountRecords(tables, DOMAIN tables)

(***************************************************************************)
(* The operations of Unqlite.                                              *)
(***************************************************************************)
\* What get_path returns for a path, given the store.
GetPathValue(store, path) == IF path \in DOMAIN store THEN store[path] ELSE path

\* A store that keeps the first dataset path of a channel path.
SetPathOnce(store, c_path, d_path) ==
    [c \in DOMAIN store \cup {c_path} |->
        IF c \in DOMAIN store THEN store[c] ELSE d_path]

\* self.db[c_path] = d_path
SetPath(store, c_path, d_path) ==
    [c \in DOMAIN store \cup {c_path} |-> IF c = c_path THEN d_path ELSE store[c]]

add_path(c_path, d_path) ==
    /\ db' = SetPath(db, c_path, d_path)
    /\ recent' = [recent EXCEPT ![c_path] = d_path]
    /\ last' = [op |-> "add_path", arg |-> c_path, out |-> "ok",
                changed |-> GetPathValue(db, c_path) # d_path]
    /\ UNCHANGED tables

get_path(path) ==
    /\ last' = [op |-> "get_path", arg |-> path, out |-> GetPathValue(db, path),
                changed |-> FALSE]
    /\ UNCHANGED <<db, tables, recent>>

add_table(table, path) ==
    LET tablepath == TablePath(table, path)
    IN /\ tables' = Create(tables, tablepath)
       /\ last' = [op |-> "add_table", arg |-> "none", out |-> tablepath,
                   changed |-> tablepath \notin DOMAIN tables]
       /\ UNCHANGED <<db, recent>>

\* An add_entry that stores without looking for the key.
AddEntryAppend(recs, k_table, entry) == Store(recs, entry)

\* An add_entry that updates the last record found, and keeps its old fields
\* when the entry is smaller.
AddEntryKeep(recs, k_table, entry) ==
    LET find_entry == [k \in k_table |-> entry[k]]
        already == GetEntry(recs, find_entry)
        old == already[Len(already)].data
    IN IF Len(already) # 0
       THEN Update(recs, already[Len(already)].id,
                   [k \in DOMAIN old \cup DOMAIN entry |->
                       IF k \in DOMAIN entry THEN entry[k] ELSE old[k]])
       ELSE Store(recs, entry)

\* The collection after add_entry, for a table that exists and an entry
\* that has every key field.
AddEntryRecords(recs, k_table, entry) ==
    LET find_entry == [k \in k_table |-> entry[k]]
        already == GetEntry(recs, find_entry)
    IN IF Len(already) # 0 THEN Update(recs, already[1].id, entry)
       ELSE Store(recs, entry)

\* Which branch add_entry takes.
AddEntryBranch(recs, k_table, entry) ==
    LET find_entry == [k \in k_table |-> entry[k]]
    IN IF Len(GetEntry(recs, find_entry)) # 0 THEN "update" ELSE "store"

add_entry(table, path, entry) ==
    LET k_table == KEY_LIST(table)
        tp == TablePath(table, path)
    IN IF k_table \subseteq DOMAIN entry /\ tp \in DOMAIN tables
       THEN LET branch == AddEntryBranch(tables[tp], k_table, entry)
            IN /\ branch = "store" => TotalRecords < MaxRecords
               /\ tables' = [tables EXCEPT ![tp] = AddEntryRecords(@, k_table, entry)]
               /\ last' = [op |-> "add_entry", arg |-> "none", out |-> branch,
                           changed |-> tables'[tp] # tables[tp]]
               /\ UNCHANGED <<db, recent>>
       ELSE \* a KeyError on a missing key field, or no such collection
            /\ last' = [op |-> "add_entry", arg |-> "none", out |-> "error",
                        changed |-> FALSE]
            /\ UNCHANGED <<db, tables, recent>>

(***************************************************************************)
(* The keywords of the access layer (INPUT, RUNTIME, OUTPUT) and the       *)
(* configured groups (BFLY_CONFIG).                                        *)
(***************************************************************************)
\* A query parameter the request does not carry.
NoArg == "<absent>"

\* Python's None.
NoneValue == "None"

\* INPUT.METHODS: the names of the methods.
META_NAME == "channel_metadata"

FEAT_NAME == "entity_feature"

GROUP_LIST == <<"experiments", "samples", "channels">>

IMAGE_LIST == <<"data", "mask">>

METHODS_LIST == <<META_NAME, FEAT_NAME>> \o GROUP_LIST \o IMAGE_LIST

\* INPUT.GROUP.LIST: the query parameter of each level of groups.
GROUP_QUERIES == <<"experiment", "sample", "channel">>

\* The terms with a whitelist: NAME, default VALUE and LIST.
INFO_FORMAT == [NAME |-> "format", VALUE |-> "json", LIST |-> <<"json", "yaml">>]

IMAGE_VIEW == [NAME |-> "view", VALUE |-> "grayscale",
               LIST |-> <<"grayscale", "colormap">>]

IMAGE_FORMAT == [NAME |-> "output", VALUE |-> "png", LIST |-> <<"png", "tif">>]

ListTerms == {INFO_FORMAT, IMAGE_VIEW, IMAGE_FORMAT}

\* INPUT.POSITION and INPUT.RESOLUTION: NAME and default VALUE, in the
\* order get_data reads them.
IntTerms == <<[NAME |-> "x", VALUE |-> NoneValue],
              [NAME |-> "y", VALUE |-> NoneValue],
              [NAME |-> "z", VALUE |-> NoneValue],
              [NAME |-> "width", VALUE |-> NoneValue],
              [NAME |-> "height", VALUE |-> NoneValue],
              [NAME |-> "depth", VALUE |-> NoneValue],
              [NAME |-> "resolution", VALUE |-> "0"]>>

\* RUNTIME.IMAGE.SOURCE.LIST and OUTPUT.INFO.TYPE.LIST.
SOURCE_LIST == <<"hdf5", "mojo">>

TYPE_LIST == <<"uint8", "uint32">>

\* A configured group: its name, what a channel carries, and the groups
\* listed in it under the name of a group method.
Channel(name, path) ==
    [name |-> name, path |-> path, dtype |-> "uint8", groups |-> <<>>]

Group(name, method, groups) ==
    [name |-> name, path |-> "", dtype |-> "", groups |-> (method :> groups)]

BFLY_CONFIG ==
    Group("", "experiments", <<
        Group("e1", "samples", <<
            Group("s1", "channels", <<Channel("c1", "p1"), Channel("c2", "p2")>>),
            Group("s2", "channels", <<Channel("c2", "p2")>>)>>),
        Group("e2", "samples", <<
            Group("s2", "channels", <<>>)>>)>>)

(***************************************************************************)
(* API: values and errors.                                                 *)
(***************************************************************************)
\* A call returns a value or raises an error.
Good(v) == [ok |-> TRUE, val |-> v]

Bad(e) == [ok |-> FALSE, err |-> e]

\* The members of a list.
Members(vlist) == {vlist[i] : i \in DOMAIN vlist}

\* list.index(v): the first place of v in the list.
Index(vlist, v) == CHOOSE i \in DOMAIN vlist :
                      vlist[i] = v /\ \A j \in 1..(i - 1) : vlist[j] # v

\* dict.get(key, default) on the groups of a configured group.
GetGroups(configured, method) ==
    IF method \in DOMAIN configured.groups THEN configured.groups[method] ELSE <<>>

\* map(self.get_value, groups): the name of each group.
GroupValues(groups) == [i \in DOMAIN groups |-> groups[i].name]

\* RequestHandler.get_query_argument(name, default)
get_query_argument(request, name, default) ==
    IF request.args[name] = NoArg THEN default ELSE request.args[name]

\* A raise of HTTPError with status 400, in place of the check's own.
except_as_503(result, kwargs) ==
    [error |-> "HTTPError", status |-> 503, action |-> "check",
     check |-> kwargs.check, term |-> kwargs.term, val |-> result]

\* API._except: raises HTTPError(uri, 400, log('check', check, term, val)).
except(result, kwargs) ==
    [error |-> "HTTPError", status |-> 400, action |-> "check",
     check |-> kwargs.check, term |-> kwargs.term, val |-> result]

\* API._match_condition
match_condition(result, checked, kwargs) ==
    IF ~checked THEN Bad(except(result, kwargs)) ELSE Good(result)

\* A match that returns the first of the list for a value of the list.
match_list_first(name, v, vlist) ==
    match_condition(IF vlist # <<>> /\ v \in Members(vlist) THEN vlist[1] ELSE v,
                    \E i \in DOMAIN vlist : vlist[i] = v,
                    [check |-> [rule |-> "one of", list |-> vlist], term |-> name])

\* API._match_list
match_list(name, v, vlist) ==
    match_condition(v, \E i \in DOMAIN vlist : vlist[i] = v,
                    [check |-> [rule |-> "one of", list |-> vlist], term |-> name])

\* The strings np.uint32 takes, and the number of each.
Numerals == ("0" :> 0) @@ ("7" :> 7) @@ ("64" :> 64)

\* API._try_condition with np.uint32, as API._try_typecast_int calls it.
try_typecast_int(qparam, result) ==
    IF result \in DOMAIN Numerals THEN Good(Numerals[result])
    ELSE Bad(except(result, [check |-> [rule |-> "a number", list |-> <<>>],
                             term |-> qparam]))

\* A list query that returns the value of the request unchecked.
get_list_query_raw(request, term) ==
    Good(get_query_argument(request, term.NAME, term.VALUE))

\* API._get_list_query
get_list_query(request, term) ==
    match_list(term.NAME, get_query_argument(request, term.NAME, term.VALUE),
               term.LIST)

\* API._get_int_query
get_int_query(request, term) ==
    try_typecast_int(term.NAME, get_query_argument(request, term.NAME, term.VALUE))

(***************************************************************************)
(* API: the groups.                                                        *)
(***************************************************************************)
\* API._find_all_groups: the (method, query) pairs of the levels before
\* the method, or of every level for a method that is no group method.
find_all_groups(method) ==
    LET n == IF method \in Members(GROUP_LIST)
             THEN Index(GROUP_LIST, method) - 1
             ELSE Len(GROUP_LIST)
    IN [i \in 1..n |-> <<GROUP_LIST[i], GROUP_QUERIES[i]>>]

\* A descent into the first group of the level, whatever matched.
descend_first(valid_groups, query_value) == valid_groups[1]

\* valid_groups[valid_values.index(query_value)]
descend(valid_groups, query_value) ==
    valid_groups[Index(GroupValues(valid_groups), query_value)]

\* One pass of the loop of API._get_group_dict, at a level.
group_level(request, configured, level) ==
    LET valid_groups == GetGroups(configured, level[1])
        valid_values == GroupValues(valid_groups)
        query_value == get_query_argument(request, level[2], "")
        matched == match_list(level[2], query_value, valid_values)
    IN IF matched.ok THEN Good(descend(valid_groups, query_value)) ELSE matched

\* API._get_group_dict, from the i-th of the levels on.
RECURSIVE group_dict_from(_, _, _, _)
group_dict_from(request, levels, i, configured) ==
    IF i > Len(levels) THEN Good(configured)
    ELSE LET step == group_level(request, configured, levels[i])
         IN IF step.ok THEN group_dict_from(request, levels, i + 1, step.val)
            ELSE step

get_group_dict(request, method) ==
    group_dict_from(request, find_all_groups(method), 1, BFLY_CONFIG)

(***************************************************************************)
(* Query and the handlers of API.                                          *)
(***************************************************************************)
\* No Query: the request raised, or none was served yet.
NoQuery == [kind |-> "none"]

\* Query.__init__: the method of the keywords (or '') becomes
\* INPUT.METHODS.VALUE and the keywords are kept; update_source has set
\* nothing yet.
Query(keywords) ==
    [kind |-> "query",
     method |-> IF "method" \in DOMAIN keywords.strs
                THEN keywords.strs["method"] ELSE "",
     keywords |-> keywords,
     updated |-> FALSE,
     TYPE |-> NoneValue, SOURCE |-> NoneValue, BLOCK |-> <<>>, SIZE |-> <<>>]

\* The keywords a handler builds: strings, integers, names of groups.
Keywords(strs, ints, names) == [strs |-> strs, ints |-> ints, names |-> names]

\* API._get_meta_info
get_meta_info(request) ==
    LET meta_info == get_group_dict(request, "")
        out_format == get_list_query(request, INFO_FORMAT)
    IN IF ~meta_info.ok THEN meta_info
       ELSE IF ~out_format.ok THEN out_format
       ELSE Good(Query(Keywords(
                ("method" :> META_NAME) @@ ("name" :> meta_info.val.name)
                @@ ("data-type" :> meta_info.val.dtype)
                @@ ("path" :> meta_info.val.path)
                @@ (INFO_FORMAT.NAME :> out_format.val),
                <<>>, <<>>)))

\* API._get_feature_info
get_feature_info(request) ==
    LET out_format == get_list_query(request, INFO_FORMAT)
    IN IF ~out_format.ok THEN out_format
       ELSE Good(Query(Keywords(("method" :> FEAT_NAME), <<>>, <<"not yet">>)))

\* API._get_group
get_group(request, method) ==
    LET out_format == get_list_query(request, INFO_FORMAT)
        group_dict == get_group_dict(request, method)
    IN IF ~out_format.ok THEN out_format
       ELSE IF ~group_dict.ok THEN group_dict
       ELSE Good(Query(Keywords(
                ("method" :> method) @@ (INFO_FORMAT.NAME :> out_format.val),
                <<>>,
                GroupValues(GetGroups(group_dict.val, method)))))

\* The loop of API.get_data over the integer terms, from the i-th on.
RECURSIVE int_terms_from(_, _, _)
int_terms_from(request, i, ints) ==
    IF i > Len(IntTerms) THEN Good(ints)
    ELSE LET cast == get_int_query(request, IntTerms[i])
         IN IF cast.ok
            THEN int_terms_from(request, i + 1, ints @@ (IntTerms[i].NAME :> cast.val))
            ELSE cast

\* API.get_data
get_data(request, method) ==
    LET meta_dict == get_group_dict(request, "")
        view == get_list_query(request, IMAGE_VIEW)
        format == get_list_query(request, IMAGE_FORMAT)
        ints == int_terms_from(request, 1, <<>>)
    IN IF ~meta_dict.ok THEN meta_dict
       ELSE IF ~view.ok THEN view
       ELSE IF ~format.ok THEN format
       ELSE IF ~ints.ok THEN ints
       ELSE Good(Query(Keywords(
                ("path" :> meta_dict.val.path) @@ ("method" :> method)
                @@ (IMAGE_VIEW.NAME :> view.val) @@ (IMAGE_FORMAT.NAME :> format.val),
                ints.val, <<>>)))

\* API.parse
parse(request) ==
    LET command == match_list("method", request.method, METHODS_LIST)
    IN IF ~command.ok THEN command
       ELSE IF command.val = META_NAME THEN get_meta_info(request)
       ELSE IF command.val = FEAT_NAME THEN get_feature_info(request)
       ELSE IF command.val \in Members(GROUP_LIST) THEN get_group(request, command.val)
       ELSE IF command.val \in Members(IMAGE_LIST) THEN get_data(request, command.val)
       ELSE Good([kind |-> "text", text |-> "Unsupported Request Category"])

(***************************************************************************)
(* Query: the checks and update_source.                                    *)
(***************************************************************************)
\* An integer of any size, as hi * 2^16 + lo with lo in 0..65535.
Num(hi, lo) == [hi |-> hi, lo |-> lo]

\* a <= b on such integers.
Leq(a, b) == a.hi < b.hi \/ (a.hi = b.hi /\ a.lo <= b.lo)

\* np.uint32 of an integer: the integer modulo 2^32.
Uint32(n) == [hi |-> n.hi % 65536, lo |-> n.lo]

\* Query.raise_error: raise URLError([status, 503, detail])
raise_error(status, detail) ==
    [error |-> "URLError", status |-> 503, action |-> status,
     check |-> detail.check, term |-> detail.term, val |-> detail.out]

\* Query.check_any
check_any(is_good, message, value, term) ==
    IF ~is_good
    THEN Bad(raise_error("CHECK", [check |-> message, out |-> value, term |-> term]))
    ELSE Good(NoneValue)

\* Query.check_list
check_list(whitelist, value, term) ==
    check_any(\E i \in DOMAIN whitelist : whitelist[i] = value,
              [rule |-> "in", list |-> whitelist], value, term)

\* Query.check_length, of a value that is None (<<>>) or a list (<<list>>).
check_length(length, value, term) ==
    LET has_len == value # <<>>
        first == check_any(has_len, [rule |-> "a list or array", list |-> <<>>],
                           IF has_len THEN value[1] ELSE NoneValue, term)
    IN IF ~first.ok THEN first
       ELSE check_any(Len(value[1]) = length,
                      [rule |-> "of length", list |-> <<>>], value[1], term)

\* np.all(np.uint32(block) <= full_size), for two lists of length 3.
Within(block, full_size) ==
    \A i \in 1..3 : Leq(Uint32(block[i]), full_size[i])

\* A raise that comes after the type was assigned.
RaisedAssigned(q, failed, evaluated) ==
    [ok |-> FALSE, err |-> failed.err,
     query |-> [q EXCEPT !.TYPE = TYPE_LIST[1]], evaluated |-> evaluated]

\* What update_source returns: the Query as it is after the call, the
\* error it raised if any, and the checks it came to, in order.
Raised(q, failed, evaluated) ==
    [ok |-> FALSE, err |-> failed.err, query |-> q, evaluated |-> evaluated]

\* Query.update_source
update_source(q, keywords) ==
    LET source_val == IF keywords.source = NoArg THEN NoneValue ELSE keywords.source
        type_val == IF keywords.type = NoArg THEN NoneValue ELSE keywords.type
        block == keywords.blocksize
        full_size == IF keywords.size = <<>>
                     THEN <<<<Num(0, 0), Num(0, 0), Num(0, 0)>>>>
                     ELSE keywords.size
        c_source == check_list(SOURCE_LIST, source_val, "source")
        c_type == check_list(TYPE_LIST, type_val, "type")
        c_block == check_length(3, block, "blocksize")
        c_size == check_length(3, full_size, "full size")
        c_within == check_any(Within(block[1], full_size[1]),
                              [rule |-> "bigger than", list |-> block[1]],
                              full_size[1], "full size")
    IN IF ~c_source.ok THEN Raised(q, c_source, <<"source">>)
       ELSE IF ~c_type.ok THEN Raised(q, c_type, <<"source", "type">>)
       ELSE IF ~c_block.ok THEN Raised(q, c_block, <<"source", "type", "blocksize">>)
       ELSE IF ~c_size.ok
            THEN Raised(q, c_size, <<"source", "type", "blocksize", "full size">>)
       ELSE IF ~c_within.ok
            THEN Raised(q, c_within,
                        <<"source", "type", "blocksize", "full size", "within">>)
       ELSE [ok |-> TRUE, err |-> NoneValue,
             query |-> [q EXCEPT !.updated = TRUE,
                                 !.TYPE = type_val,
                                 !.SOURCE = source_val,
                                 !.BLOCK = [i \in 1..3 |-> Uint32(block[1][i])],
                                 !.SIZE = [z |-> full_size[1][1],
                                           y |-> full_size[1][2],
                                           x |-> full_size[1][3]]],
             evaluated |-> <<"source", "type", "blocksize", "full size", "within">>]

(***************************************************************************)
(* The calls of the access layer.                                          *)
(***************************************************************************)
NoError ==
    [error |-> "none", status |-> 0, action |-> "none",
     check |-> [rule |-> "none", list |-> <<>>], term |-> "none", val |-> NoneValue]

\* What a call left: which call, the parity of the requests so far, whether it
\* returned or raised, the error, its input and value where they are kept,
\* and the checks update_source came to.
Response(op, out, err, input, val, evaluated) ==
    [op |-> op, tick |-> IF op = "parse" THEN 1 - response.tick ELSE response.tick,
     out |-> out, err |-> err,
     input |-> input, val |-> val, evaluated |-> evaluated]

\* A request that registers its path before it is validated.
RequestThenStore(request) ==
    LET r == parse(request)
    IN /\ query' = IF r.ok /\ r.val.kind = "query" THEN r.val ELSE NoQuery
       /\ response' = Response("parse", IF r.ok THEN r.val.kind ELSE "error",
                               IF r.ok THEN NoError ELSE r.err,
                               NoneValue, NoneValue, <<>>)
       /\ db' = SetPath(db, "c1", "p2")
       /\ UNCHANGED <<tables, recent, last, resolve, calls>>

\* A request served by API.parse: a Query, a text, or an error.
Request(request) ==
    LET r == parse(request)
    IN /\ query' = IF r.ok /\ r.val.kind = "query" THEN r.val ELSE NoQuery
       /\ response' = Response("parse", IF r.ok THEN r.val.kind ELSE "error",
                               IF r.ok THEN NoError ELSE r.err,
                               NoneValue, NoneValue, <<>>)
       /\ UNCHANGED <<db, tables, recent, last, resolve, calls>>

\* Query.update_source on the Query of the request.
UpdateSource(keywords) ==
    /\ query.kind = "query"
    /\ LET r == update_source(query, keywords)
       IN /\ query' = r.query
          /\ response' = Response("update_source", IF r.ok THEN "ok" ELSE "error",
                                  IF r.ok THEN NoError ELSE r.err,
                                  keywords, NoneValue, r.evaluated)
    /\ UNCHANGED <<db, tables, recent, last, resolve, calls>>

\* The arguments of a request: every parameter, absent unless given.
NoArgs ==
    [experiment |-> NoArg, sample |-> NoArg, channel |-> NoArg, format |-> NoArg,
     view |-> NoArg, output |-> NoArg, x |-> NoArg, y |-> NoArg, z |-> NoArg,
     width |-> NoArg, height |-> NoArg, depth |-> NoArg, resolution |-> NoArg]

\* API._get_list_query alone, for a term and the value of its parameter.
GetListQuery(term, arg) ==
    LET request == [method |-> "", args |-> [NoArgs EXCEPT ![term.NAME] = arg]]
        r == get_list_query(request, term)
    IN /\ response' = Response("get_list_query", IF r.ok THEN "ok" ELSE "error",
                               IF r.ok THEN NoError ELSE r.err,
                               [term |-> term, arg |-> arg],
                               IF r.ok THEN r.val ELSE NoneValue, <<>>)
       /\ UNCHANGED <<db, tables, recent, last, query, resolve, calls>>

\* Query.check_list alone.
CheckList(whitelist, value, term) ==
    LET r == check_list(whitelist, value, term)
    IN /\ response' = Response("check_list", IF r.ok THEN "ok" ELSE "error",
                               IF r.ok THEN NoError ELSE r.err,
                               [list |-> whitelist, value |-> value, term |-> term],
                               NoneValue, <<>>)
       /\ UNCHANGED <<db, tables, recent, last, query, resolve, calls>>

(***************************************************************************)
(* API._get_group_dict, one level at a time.                               *)
(***************************************************************************)
Idle == [state |-> "idle", request |-> [method |-> "", args |-> NoArgs],
         method |-> "", levels |-> <<>>, i |-> 1, configured |-> BFLY_CONFIG,
         err |-> NoError]

\* The call: the levels are listed and the walk starts at the whole
\* configuration.
StartGroupDict(request, method) ==
    /\ resolve.state # "running"
    /\ resolve' = [state |-> "running", request |-> request, method |-> method,
                   levels |-> find_all_groups(method), i |-> 1,
                   configured |-> BFLY_CONFIG, err |-> NoError]
    /\ UNCHANGED <<db, tables, recent, last, query, response, calls>>

\* One pass of the loop: the level's value matches and the walk descends,
\* or the match raises.
StepGroupDict ==
    /\ resolve.state = "running"
    /\ resolve.i <= Len(resolve.levels)
    /\ LET step == group_level(resolve.request, resolve.configured,
                               resolve.levels[resolve.i])
       IN resolve' = IF step.ok
                     THEN [resolve EXCEPT !.configured = step.val, !.i = @ + 1]
                     ELSE [resolve EXCEPT !.state = "raised", !.err = step.err]
    /\ UNCHANGED <<db, tables, recent, last, query, response, calls>>

\* The loop is over: configured is returned.
ReturnGroupDict ==
    /\ resolve.state = "running"
    /\ resolve.i > Len(resolve.levels)
    /\ resolve' = [resolve EXCEPT !.state = "done"]
    /\ UNCHANGED <<db, tables, recent, last, query, response, calls>>

(***************************************************************************)
(* The inputs.                                                             *)
(***************************************************************************)
\* The values of the group parameters of a request.
GroupArgs ==
    {<<"e1", "s1", "c1">>, <<"e1", "s1", "c2">>, <<"e1", "s2", "c2">>,
     <<"e1", "s2", "c1">>, <<"e2", "s1", "c1">>, <<"e2", "s2", NoArg>>,
     <<NoArg, "s1", "c1">>, <<"s1", "s1", "c1">>, <<"e1", NoArg, NoArg>>,
     <<"e1", "s1", NoArg>>}

DataGroupArgs ==
    {<<"e1", "s1", "c1">>, <<"e1", "s1", "c2">>, <<"e1", "s2", "c2">>,
     <<"e1", "s2", "c1">>}

AllGroupArgs == {"e1", "e2", "s1", NoArg} \X {"s1", "s2", NoArg} \X {"c1", "c2", NoArg}

WithGroups(args, g) ==
    [args EXCEPT !.experiment = g[1], !.sample = g[2], !.channel = g[3]]

FormatArgs == {NoArg, "json", "yaml", "xml"}

ViewArgs == {NoArg, "colormap", "rgb"}

OutputArgs == {NoArg, "tif", "bmp"}

\* The values of the seven integer parameters: numbers, but for one at most.
IntArgs ==
    {s \in [1..7 -> {"7", "x", NoArg}] : Cardinality({i \in 1..7 : s[i] # "7"}) <= 1}
    \cup {[i \in 1..7 |-> IF i <= 3 THEN "x" ELSE "64"],
          [i \in 1..7 |-> IF i <= 6 THEN "64" ELSE "0"]}

WithInts(args, s) ==
    [args EXCEPT !.x = s[1], !.y = s[2], !.z = s[3], !.width = s[4],
                 !.height = s[5], !.depth = s[6], !.resolution = s[7]]

\* A data request with every parameter valid.
GoodData ==
    [WithInts(WithGroups(NoArgs, <<"e1", "s1", "c1">>), [i \in 1..7 |-> "7"])
        EXCEPT !.view = "colormap"]

\* The requests: an unknown method, and for each method the requests that
\* differ from a valid one in the groups, in one whitelisted parameter or
\* in the integers.
Requests ==
    {[method |-> m, args |-> NoArgs] : m \in {"bogus", ""}}
    \cup {[method |-> m, args |-> WithGroups(NoArgs, g)] :
            m \in Members(GROUP_LIST) \cup {META_NAME}, g \in GroupArgs}
    \cup {[method |-> m,
           args |-> [WithGroups(NoArgs, <<"e1", "s1", "c2">>) EXCEPT !.format = f]] :
            m \in Members(GROUP_LIST) \cup {META_NAME, FEAT_NAME}, f \in FormatArgs}
    \cup {[method |-> m, args |-> WithGroups(GoodData, g)] :
            m \in Members(IMAGE_LIST), g \in DataGroupArgs}
    \cup {[method |-> m, args |-> [GoodData EXCEPT !.view = v]] :
            m \in Members(IMAGE_LIST), v \in ViewArgs}
    \cup {[method |-> m, args |-> [GoodData EXCEPT !.output = o]] :
            m \in Members(IMAGE_LIST), o \in OutputArgs}
    \cup {[method |-> m, args |-> WithInts(GoodData, s)] :
            m \in Members(IMAGE_LIST), s \in IntArgs}

\* The keywords handed to update_source.
SourceVals == {"hdf5", "tiff", NoArg}

TypeVals == {"uint32", "float99", NoArg}

One == Num(0, 1)

Two == Num(0, 2)

\* -1, 1, 2 and 2^32 + 1
BlockVals == {Num(-1, 65535), One, Two, Num(65536, 1)}

SizeVals == {One, Two}

\* No block, a block of two, and the blocks of three that are 1 but for
\* one component at most.
Blocks ==
    {<<>>, <<<<One, One>>>>}
    \cup {<<b>> : b \in {c \in [1..3 -> BlockVals] :
                            Cardinality({i \in 1..3 : c[i] # One}) <= 1}}

\* No size, a size of two, and the sizes of three that are 2 but for one
\* component at most.
Sizes ==
    {<<>>, <<<<Two, Two>>>>}
    \cup {<<f>> : f \in {c \in [1..3 -> SizeVals] :
                            Cardinality({i \in 1..3 : c[i] # Two}) <= 1}}

SourceKeywords ==
    {[source |-> "hdf5", type |-> "uint8", blocksize |-> b, size |-> f] :
        b \in Blocks, f \in Sizes}

\* Keywords that are valid but for one of them, or for none.
GoodKeywords ==
    [source |-> "hdf5", type |-> "uint32",
     blocksize |-> <<<<One, One, One>>>>, size |-> <<<<One, Two, Two>>>>]

FewKeywords ==
    {[GoodKeywords EXCEPT !.source = s] : s \in SourceVals \cup {"mojo"}}
    \cup {[GoodKeywords EXCEPT !.type = t] : t \in TypeVals}
    \cup {[GoodKeywords EXCEPT !.blocksize = b] :
            b \in {<<>>, <<<<One, One>>>>, <<<<Two, One, One>>>>,
                   <<<<One, Two, One>>>>}}
    \cup {[GoodKeywords EXCEPT !.size = f] : f \in {<<>>, <<<<Two, Two>>>>}}
    \cup {[source |-> "tiff", type |-> NoArg, blocksize |-> <<>>, size |-> <<>>]}

(***************************************************************************)
(* The specifications.                                                     *)
(***************************************************************************)
InitDB ==
    /\ db = <<>>
    /\ tables = <<>>
    /\ recent = [c \in ChannelPaths |-> "none"]
    /\ last = [op |-> "none", arg |-> "none", out |-> "none", changed |-> FALSE]

NoResponse ==
    [op |-> "none", tick |-> 0, out |-> "none", err |-> NoError,
     input |-> NoneValue, val |-> NoneValue, evaluated |-> <<>>]

InitAccess ==
    /\ query = NoQuery
    /\ response = NoResponse
    /\ resolve = Idle

\* The callers of the database, and a caller that is in no call.
Callers == {1, 2}

NoCall ==
    [pc |-> "idle", table |-> "none", path |-> "none", entry |-> <<>>,
     already |-> <<>>, out |-> "none"]

InitCalls == calls = [c \in Callers |-> NoCall]

Init == InitDB /\ InitAccess /\ InitCalls

\* The requests, each followed by update_source on its Query.
Next ==
    \/ \E request \in Requests : Request(request)
    \/ \E keywords \in FewKeywords : UpdateSource(keywords)

Spec == Init /\ [][Next]_vars

\* The requests, beside calls of the database.
NextRequest ==
    \/ \E request \in Requests : Request(request)
    \/ add_path("c1", "p1") /\ UNCHANGED <<accessvars, calls>>
    \/ add_table("neuron", "p1") /\ UNCHANGED <<accessvars, calls>>
    \/ \E e \in {[a |-> 0], [a |-> 0, b |-> 1]} :
          add_entry("neuron", "p1", e) /\ UNCHANGED <<accessvars, calls>>

SpecRequest == Init /\ [][NextRequest]_vars

\* The walk of the groups.
NextGroup ==
    \/ \E g \in AllGroupArgs, m \in Members(GROUP_LIST) \cup {""} :
          StartGroupDict([method |-> m, args |-> WithGroups(NoArgs, g)], m)
    \/ StepGroupDict
    \/ ReturnGroupDict

SpecGroup == Init /\ [][NextGroup]_vars

\* The checks alone, on the Query of a data request.
InitValidate ==
    /\ InitDB
    /\ response = NoResponse
    /\ resolve = Idle
    /\ query = Query(Keywords(("method" :> "data"), <<>>, <<>>))
    /\ InitCalls

NextValidate ==
    \/ \E term \in ListTerms, arg \in FormatArgs \cup ViewArgs \cup OutputArgs :
          GetListQuery(term, arg)
    \/ \E value \in SourceVals \cup TypeVals \cup {"hdf5", "uint8", NoneValue} :
          \/ CheckList(SOURCE_LIST, value, "source")
          \/ CheckList(TYPE_LIST, value, "type")
    \/ \E keywords \in SourceKeywords \cup FewKeywords : UpdateSource(keywords)

SpecValidate == InitValidate /\ [][NextValidate]_vars

\* The path mapping alone.
NextPath ==
    \/ \E c \in ChannelPaths, d \in Paths : add_path(c, d) /\ UNCHANGED <<accessvars, calls>>
    \/ \E c \in ChannelPaths : get_path(c) /\ UNCHANGED <<accessvars, calls>>

SpecPath == Init /\ [][NextPath]_vars

\* The tables alone.
NextDB ==
    \/ \E t \in Tables, p \in Paths : add_table(t, p) /\ UNCHANGED <<accessvars, calls>>
    \/ \E t \in Tables, p \in Paths, e \in Entries :
          add_entry(t, p, e) /\ UNCHANGED <<accessvars, calls>>

SpecDB == Init /\ [][NextDB]_vars

(***************************************************************************)
(* The claims about the database.                                          *)
(***************************************************************************)
\* The natural key of a stored record of a table.
NaturalKey(table, rec) == [k \in KEY_LIST(table) |-> rec.data[k]]

\* The stored records of a collection with the natural key of an entry.
WithKey(table, recs, entry) ==
    LET Same(r) == NaturalKey(table, r) = [k \in KEY_LIST(table) |-> entry[k]]
    IN SelectSeq(recs, Same)

\* The stored records of a collection with another natural key.
WithOtherKey(table, recs, entry) ==
    LET Other(r) == NaturalKey(table, r) # [k \in KEY_LIST(table) |-> entry[k]]
    IN SelectSeq(recs, Other)

\* C1: after any add_table and add_entry calls, no table holds two records
\* that agree on every natural-key field of the table.
C1_OneRecordPerKey ==
    \A tp \in DOMAIN tables :
        \A i, j \in DOMAIN tables[tp] :
            i # j => NaturalKey(tp[1], tables[tp][i]) # NaturalKey(tp[1], tables[tp][j])

\* An add_entry found its key and updated, in a table of two records.
C1_Witness ==
    /\ last.op = "add_entry"
    /\ last.out = "update"
    /\ \E tp \in DOMAIN tables : Len(tables[tp]) = 2

\* C2: an add_entry of r2 in a table that holds a record with r2's natural
\* key (stored by an earlier add_entry of r1) leaves exactly one record with
\* that key, holding the fields of r2 and nothing else; the records with
\* another key, and the other tables, are as before.
C2_SecondAddWins ==
    [][\A t \in Tables, p \in Paths, e \in Entries :
        LET tp == TablePath(t, p)
        IN (add_entry(t, p, e) /\ last'.out = "update") =>
              /\ Len(WithKey(t, tables'[tp], e)) = 1
              /\ WithKey(t, tables'[tp], e)[1].data = e
              /\ Len(WithKey(t, tables[tp], e)) = 1
              /\ WithOtherKey(t, tables'[tp], e) = WithOtherKey(t, tables[tp], e)
              /\ \A o \in DOMAIN tables \ {tp} : tables'[o] = tables[o]
              /\ DOMAIN tables' = DOMAIN tables]_dbvars

\* An add_entry replaced the fields of a record, beside a record of
\* another key.
C2_Witness ==
    /\ last.op = "add_entry"
    /\ last.out = "update"
    /\ last.changed
    /\ \E tp \in DOMAIN tables : Len(tables[tp]) = 2

\* What C7 expects of get_path: the dataset path registered last, or the
\* channel path itself.
Registered(c) == IF recent[c] = "none" THEN c ELSE recent[c]

\* C7: get_path returns the dataset path most recently registered for a
\* channel path, or the channel path itself when none was; adding a pair
\* that is registered changes no result of get_path.
C7_GetPath ==
    /\ [](\A c \in ChannelPaths : GetPathValue(db, c) = Registered(c))
    /\ [](last.op = "get_path" => last.out = Registered(last.arg))
    /\ [][\A c \in ChannelPaths, d \in Paths :
            (add_path(c, d) /\ GetPathValue(db, c) = d /\ c \in DOMAIN db) =>
                \A x \in ChannelPaths : GetPathValue(db', x) = GetPathValue(db, x)]_dbvars

\* get_path answered for a channel path that was never registered, while
\* another was registered again with another dataset path.
C7_Witness ==
    /\ last.op = "get_path"
    /\ recent[last.arg] = "none"
    /\ last.out = last.arg
    /\ \E c \in ChannelPaths : recent[c] # "none" /\ recent[c] # c

C4_WhitelistExact ==
    /\ response.op = "get_list_query" =>
          LET term == response.input.term
              v == IF response.input.arg = NoArg THEN term.VALUE
                   ELSE response.input.arg
          IN /\ response.out = "error" <=> v \notin Members(term.LIST)
             /\ response.out = "ok" => response.val = v
             /\ response.out = "error" =>
                   /\ response.err.check = [rule |-> "one of", list |-> term.LIST]
                   /\ response.err.term = term.NAME
                   /\ response.err.val = v
    /\ response.op = "check_list" =>
          /\ response.out = "error" <=>
                response.input.value \notin Members(response.input.list)
          /\ response.out = "error" =>
                /\ response.err.check = [rule |-> "in", list |-> response.input.list]
                /\ response.err.term = response.input.term
                /\ response.err.val = response.input.value

\* A value of the request that is not the first of its list was returned.
C4_Witness ==
    /\ response.op = "get_list_query"
    /\ response.out = "ok"
    /\ response.input.arg = "yaml"
    /\ response.val = "yaml"

\* The block and the full size update_source compared, when it came to
\* the bound check.
CameToBounds ==
    /\ response.op = "update_source"
    /\ Len(response.evaluated) = 5

BlockOf(keywords) == keywords.blocksize[1]

FullSizeOf(keywords) ==
    IF keywords.size = <<>> THEN <<Num(0, 0), Num(0, 0), Num(0, 0)>>
    ELSE keywords.size[1]

\* C5: the bound check of update_source passes exactly when every
\* component of the block is at most the component of the full size, and
\* fails with the error of the bound check otherwise.
C5_BoundCheck ==
    CameToBounds =>
        /\ response.out = "ok" <=>
              \A i \in 1..3 : Leq(BlockOf(response.input)[i],
                                  FullSizeOf(response.input)[i])
        /\ response.out = "error" =>
              /\ response.err.check.rule = "bigger than"
              /\ response.err.term = "full size"

\* The same for the blocks np.uint32 leaves as they are, 0 to 2^32 - 1.
C5_BoundCheckOfUint32 ==
    (CameToBounds /\ \A i \in 1..3 : BlockOf(response.input)[i].hi \in 0..65535) =>
        /\ response.out = "ok" <=>
              \A i \in 1..3 : Leq(BlockOf(response.input)[i],
                                  FullSizeOf(response.input)[i])
        /\ response.out = "error" =>
              /\ response.err.check.rule = "bigger than"
              /\ response.err.term = "full size"

\* The groups of the current level and the value of the request for it.
LevelGroups == GetGroups(resolve.configured, resolve.levels[resolve.i][1])

LevelValue ==
    LET v == resolve.request.args[resolve.levels[resolve.i][2]]
    IN IF v = NoArg THEN "" ELSE v

\* C6: _get_group_dict goes through the levels before the method (every
\* level for a method that is no group method), outermost first and one
\* at a time; a value that names a group of the level takes the walk into
\* that group; any other value raises the whitelist error for the level,
\* and after it no level is looked at; the walk never steps back.
C6_GroupResolution ==
    /\ [](/\ \A k \in DOMAIN resolve.levels :
                resolve.levels[k] = <<GROUP_LIST[k], GROUP_QUERIES[k]>>
          /\ IF resolve.state = "idle" THEN TRUE
             ELSE IF resolve.method \in Members(GROUP_LIST)
             THEN GROUP_LIST[Len(resolve.levels) + 1] = resolve.method
             ELSE Len(resolve.levels) = Len(GROUP_LIST)
          /\ resolve.state = "raised" => resolve.i <= Len(resolve.levels)
          /\ resolve.state = "done" =>
                /\ resolve.i = Len(resolve.levels) + 1
                /\ get_group_dict(resolve.request, resolve.method)
                      = Good(resolve.configured))
    /\ [][resolve.state = "running" /\ resolve'.state # "done" =>
            IF \E j \in DOMAIN LevelGroups : LevelGroups[j].name = LevelValue
            THEN /\ resolve'.state = "running"
                 /\ resolve'.i = resolve.i + 1
                 /\ resolve'.configured \in Members(LevelGroups)
                 /\ resolve'.configured.name = LevelValue
            ELSE /\ resolve'.state = "raised"
                 /\ resolve'.i = resolve.i
                 /\ resolve'.configured = resolve.configured
                 /\ resolve'.err.check.rule = "one of"
                 /\ resolve'.err.term = resolve.levels[resolve.i][2]
                 /\ resolve'.err.val = LevelValue]_vars
    /\ [][resolve.state = "running" /\ resolve'.state = "done" =>
            /\ resolve.i > Len(resolve.levels)
            /\ resolve'.configured = resolve.configured]_vars
    /\ [][resolve.state # "running" =>
            /\ resolve'.state = "running"
            /\ resolve'.i = 1
            /\ resolve'.configured = BFLY_CONFIG]_vars

\* The walk matched two levels, into the second group of the second
\* level, and raised at the third.
C6_Witness ==
    /\ resolve.state = "raised"
    /\ resolve.i = 3
    /\ resolve.configured.name = "s2"
    /\ resolve.err.term = "channel"

\* C9: a request that fails validation leaves the path mapping and every
\* table as they were.
C9_FailedRequestNoWrite ==
    [][(response'.tick # response.tick /\ response'.out = "error") =>
          (db' = db /\ tables' = tables)]_vars

\* A request failed while the database held a path and a record.
C9_Witness ==
    /\ response.op = "parse"
    /\ response.out = "error"
    /\ response.err.check.rule = "a number"
    /\ "c1" \in DOMAIN db
    /\ \E tp \in DOMAIN tables : Len(tables[tp]) > 0

\* The terms API validates.
ApiTerms ==
    {"method"} \cup Members(GROUP_QUERIES) \cup {term.NAME : term \in ListTerms}
    \cup {IntTerms[i].NAME : i \in DOMAIN IntTerms}

\* C10 as claimed: every validation failure surfaces with status 400.
C10_AllStatus400 ==
    response.out = "error" => response.err.status = 400

\* C10 as amended: a failure of a check of API (membership, numeric cast)
\* is an HTTPError of status 400 with the term and the value that failed;
\* a failure of a check of Query.update_source (membership, length,
\* bounds) is a URLError of status 503 with the term and the value.
C10_ErrorStatus ==
    /\ (response.op = "parse" /\ response.out = "error") =>
          /\ response.err.error = "HTTPError"
          /\ response.err.status = 400
          /\ response.err.term \in ApiTerms
          /\ response.err.check.rule = "one of" =>
                response.err.val \notin Members(response.err.check.list)
          /\ response.err.check.rule = "a number" =>
                response.err.val \notin DOMAIN Numerals
    /\ (response.op = "update_source" /\ response.out = "error") =>
          /\ response.err.error = "URLError"
          /\ response.err.status = 503
          /\ response.err.term \in {"source", "type", "blocksize", "full size"}
          /\ response.err.term = "source" =>
                response.err.val = IF response.input.source = NoArg THEN NoneValue
                                   ELSE response.input.source
          /\ response.err.term = "type" =>
                response.err.val = IF response.input.type = NoArg THEN NoneValue
                                   ELSE response.input.type
          /\ response.err.term = "blocksize" =>
                IF response.input.blocksize = <<>> THEN response.err.val = NoneValue
                ELSE response.err.val = response.input.blocksize[1]
          /\ response.err.term = "full size" =>
                response.err.val = FullSizeOf(response.input)

\* The bound check of update_source failed.
C10_Witness ==
    /\ response.op = "update_source"
    /\ response.out = "error"
    /\ response.err.check.rule = "bigger than"
    /\ response.err.status = 503
(***************************************************************************)
(* API.parse, with the handlers it ran.                                    *)
(***************************************************************************)
\* The tests of API.parse on the command, in their order: the handler of
\* the first that holds, or none.
handler_of(command) ==
    IF command = META_NAME THEN <<"meta">>
    ELSE IF command = FEAT_NAME THEN <<"feature">>
    ELSE IF command \in Members(GROUP_LIST) THEN <<"group">>
    ELSE IF command \in Members(IMAGE_LIST) THEN <<"image">>
    ELSE <<>>

\* The call of a handler.
run_handler(handler, request, command) ==
    CASE handler = "meta" -> get_meta_info(request)
      [] handler = "feature" -> get_feature_info(request)
      [] handler = "group" -> get_group(request, command)
      [] handler = "image" -> get_data(request, command)

\* A dispatch that does not look the method up in the list.
dispatch_unchecked(request) ==
    LET ran == handler_of(request.method)
    IN [ran |-> ran,
        result |-> IF ran = <<>>
                   THEN Good([kind |-> "text", text |-> "Unsupported Request Category"])
                   ELSE run_handler(ran[1], request, request.method)]

\* API.parse: what it returns or raises, and the handlers it ran.
dispatch(request) ==
    LET command == match_list("method", request.method, METHODS_LIST)
        ran == IF command.ok THEN handler_of(command.val) ELSE <<>>
    IN [ran |-> ran,
        result |-> IF ~command.ok THEN command
                   ELSE IF ran = <<>>
                   THEN Good([kind |-> "text", text |-> "Unsupported Request Category"])
                   ELSE run_handler(ran[1], request, command.val)]

\* A request served by API.parse, kept with the handlers that ran.
Dispatch(request) ==
    LET d == dispatch(request)
        r == d.result
    IN /\ query' = IF r.ok /\ r.val.kind = "query" THEN r.val ELSE NoQuery
       /\ response' = Response("dispatch", IF r.ok THEN r.val.kind ELSE "error",
                               IF r.ok THEN NoError ELSE r.err,
                               request, d.ran, <<>>)
       /\ UNCHANGED <<db, tables, recent, last, resolve, calls>>

NextDispatch == \E request \in Requests : Dispatch(request)

SpecDispatch == Init /\ [][NextDispatch]_vars

\* The handler the claim names for a method of the list.
HandlerNamed(method) ==
    IF method = META_NAME THEN "meta"
    ELSE IF method = FEAT_NAME THEN "feature"
    ELSE IF method \in Members(GROUP_LIST) THEN "group"
    ELSE "image"

\* C11: API.parse raises for every method that is not in the list of
\* methods, and no handler has run; for every method of the list exactly
\* one handler runs, the one of the first test that holds (meta, feature,
\* group, image), and what it returns or raises is the outcome of parse.
C11_Dispatch ==
    response.op = "dispatch" =>
        LET request == response.input
            ran == response.val
        IN IF request.method \notin Members(METHODS_LIST)
           THEN /\ response.out = "error"
                /\ response.err.status = 400
                /\ response.err.term = "method"
                /\ response.err.val = request.method
                /\ ran = <<>>
                /\ query = NoQuery
           ELSE /\ Len(ran) = 1
                /\ ran[1] = HandlerNamed(request.method)
                /\ LET h == run_handler(ran[1], request, request.method)
                   IN /\ parse(request) = h
                      /\ IF h.ok
                         THEN response.out = "query" /\ query = h.val
                         ELSE response.out = "error" /\ response.err = h.err

\* A group method ran the group handler and its Query came back.
C11_Witness ==
    /\ response.op = "dispatch"
    /\ response.input.method = "samples"
    /\ response.val = <<"group">>
    /\ response.out = "query"
    /\ query.keywords.names = <<"s1", "s2">>

\* An unknown method raised before any handler ran.
C11_WitnessUnknown ==
    /\ response.op = "dispatch"
    /\ response.input.method = "bogus"
    /\ response.out = "error"
    /\ response.val = <<>>
(***************************************************************************)
(* The calls of the database by several callers.  Unqlite holds no lock;   *)
(* the callers share one thread of control, which passes from one to       *)
(* another only where a call yields, and add_path, add_table, add_entry    *)
(* and commit hold no yield: a call keeps the thread until it returns.     *)
(***************************************************************************)
\* The callers that are inside a call.
InFlight == {c \in Callers : calls[c].pc # "idle"}

\* Threads that take the control from a caller at any step.
HasControlPreempted(c) == TRUE

\* The caller may run: no other caller is inside a call.
HasControl(c) == \A o \in Callers \ {c} : calls[o].pc = "idle"

\* Unqlite.add_entry up to the lookup: the records found for the natural
\* key of the entry.
AddEntryLookup(c, table, path, entry) ==
    LET k_table == KEY_LIST(table)
        tp == TablePath(table, path)
    IN /\ calls[c].pc = "idle"
       /\ HasControl(c)
       /\ k_table \subseteq DOMAIN entry
       /\ tp \in DOMAIN tables
       /\ calls' = [calls EXCEPT ![c] =
                      [pc |-> "found", table |-> table, path |-> path,
                       entry |-> entry,
                       already |-> GetEntry(tables[tp], [k \in k_table |-> entry[k]]),
                       out |-> "none"]]
       /\ UNCHANGED <<db, tables, recent, last, query, response, resolve>>

\* Unqlite.add_entry from the lookup on: update of the record found, or
\* store of the entry.
AddEntryWrite(c) ==
    LET call == calls[c]
        tp == TablePath(call.table, call.path)
        branch == IF Len(call.already) # 0 THEN "update" ELSE "store"
    IN /\ call.pc = "found"
       /\ HasControl(c)
       /\ branch = "store" => TotalRecords < MaxRecords
       /\ tables' = [tables EXCEPT ![tp] =
                       IF branch = "update"
                       THEN Update(@, call.already[1].id, call.entry)
                       ELSE Store(@, call.entry)]
       /\ calls' = [calls EXCEPT ![c].pc = "idle", ![c].out = branch]
       /\ last' = [op |-> "add_entry", arg |-> "none", out |-> branch,
                   changed |-> tables'[tp] # tables[tp]]
       /\ UNCHANGED <<db, recent, query, response, resolve>>

\* Unqlite.commit: what is stored goes to disk as it is.
commit ==
    /\ last' = [op |-> "commit", arg |-> "none", out |-> "", changed |-> FALSE]
    /\ UNCHANGED <<db, tables, recent>>

\* A call that returns in one step.
Whole(c) == calls[c].pc = "idle" /\ HasControl(c)

\* The entries the callers add.
CallerEntries == {[a |-> 0], [a |-> 1], [a |-> 0, b |-> 1]}

NextSerial ==
    \/ \E c \in Callers, p \in Paths :
          Whole(c) /\ add_table("neuron", p) /\ UNCHANGED <<accessvars, calls>>
    \/ \E c \in Callers :
          Whole(c) /\ add_path("c1", "p1") /\ UNCHANGED <<accessvars, calls>>
    \/ \E c \in Callers : Whole(c) /\ commit /\ UNCHANGED <<accessvars, calls>>
    \/ \E c \in Callers, p \in Paths, e \in CallerEntries :
          AddEntryLookup(c, "neuron", p, e)
    \/ \E c \in Callers : AddEntryWrite(c)

SpecSerial == Init /\ [][NextSerial]_vars

\* The natural key of the entry of a call.
CallKey(call) == [k \in KEY_LIST(call.table) |-> call.entry[k]]

DigitVal ==
    ("0" :> 0) @@ ("1" :> 1) @@ ("2" :> 2) @@ ("3" :> 3) @@ ("4" :> 4) @@
    ("5" :> 5) @@ ("6" :> 6) @@ ("7" :> 7) @@ ("8" :> 8) @@ ("9" :> 9)

\* str.split(','): the pieces between the commas, empty ones included.
RECURSIVE SplitFrom(_, _, _)
SplitFrom(str, cur, acc) ==
    IF str = <<>> THEN Append(acc, cur)
    ELSE IF Head(str) = "," THEN SplitFrom(Tail(str), <<>>, Append(acc, cur))
    ELSE SplitFrom(Tail(str), Append(cur, Head(str)), acc)

Split(str) == SplitFrom(str, <<>>, <<>>)

\* The digits of a piece after its sign.
Unsigned(piece) ==
    IF piece # <<>> /\ Head(piece) = "-" THEN Tail(piece) ELSE piece

\* Whether int(piece) returns, rather than raises ValueError.
IsInt(piece) ==
    /\ Unsigned(piece) # <<>>
    /\ \A i \in DOMAIN Unsigned(piece) : Unsigned(piece)[i] \in DOMAIN DigitVal

RECURSIVE Decimal(_, _)
Decimal(digits, acc) ==
    IF digits = <<>> THEN acc
    ELSE Decimal(Tail(digits), 10 * acc + DigitVal[Head(digits)])

\* int(piece)
IntOf(piece) ==
    IF Head(piece) = "-" THEN 0 - Decimal(Unsigned(piece), 0)
    ELSE Decimal(piece, 0)

\* tuple(int(a) for a in value.split(',')), where every int() returns.
IntTuple(value) == [i \in DOMAIN Split(value) |-> IntOf(Split(value)[i])]

AllInt(value) == \A i \in DOMAIN Split(value) : IsInt(Split(value)[i])

\* What the try block of a data or zip request comes to: the exception of
\* the first statement that raises, or the call of core.get with its
\* arguments.  parsed_query holds the values of the keys, the empty
\* value where parse_qs keeps no such key.
try_core_get(parsed_query) ==
    LET Missing == [raised |-> "KeyError", called |-> <<>>]
        Invalid == [raised |-> "ValueError", called |-> <<>>]
    IN IF parsed_query.datapath = <<>> THEN Missing
       ELSE IF parsed_query.start = <<>> THEN Missing
       ELSE IF ~AllInt(parsed_query.start) THEN Invalid
       ELSE IF parsed_query.mip = <<>> THEN Missing
       ELSE IF ~IsInt(parsed_query.mip) THEN Invalid
       ELSE IF parsed_query.size = <<>> THEN Missing
       ELSE IF ~AllInt(parsed_query.size) THEN Invalid
       ELSE [raised |-> "none",
             called |-> <<[datapath |-> parsed_query.datapath,
                           start |-> IntTuple(parsed_query.start),
                           volsize |-> IntTuple(parsed_query.size),
                           w |-> IntOf(parsed_query.mip)]>>]

\* WebServer.handle: the content it writes and the call of core.get it
\* made; core is what core.get does when called: it returns a volume or
\* raises.
handle(kind, parsed_query, core) ==
    IF kind = "metainfo" THEN [content |-> "metainfo", called |-> <<>>]
    ELSE IF kind \in {"data", "zip"}
    THEN LET try == try_core_get(parsed_query)
         IN [content |->
                 IF try.raised = "KeyError" THEN "Missing query"
                 ELSE IF try.raised = "ValueError" THEN "Out of bounds"
                 ELSE IF core \in {"TypeError", "ValueError"} THEN "Out of bounds"
                 ELSE IF kind = "data" THEN "image/png"
                 ELSE "application/octet-stream",
             called |-> try.called]
    ELSE [content |-> "Error 404: Not found", called |-> <<>>]

\* A request served by WebServer.handle.
Handle(kind, parsed_query, core) ==
    LET h == handle(kind, parsed_query, core)
    IN /\ response' = Response("handle", h.content, NoError,
                               [kind |-> kind, parsed_query |-> parsed_query],
                               h.called, <<>>)
       /\ UNCHANGED <<db, tables, recent, last, query, resolve, calls>>

\* The values of the query string: none, well formed, of the wrong
\* length, not a number, and out of the volume.
DatapathVals == {<<>>, <<"p">>}

StartVals ==
    {<<>>, <<"0", ",", "0", ",", "0">>, <<"1", ",", "2">>,
     <<"x", ",", "0", ",", "0">>, <<"9", ",", "0", ",", "0">>,
     <<"-", "1", ",", "0", ",", "0">>}

MipVals == {<<>>, <<"0">>, <<"x">>}

VolsizeVals ==
    {<<>>, <<"1", ",", "1", ",", "1">>, <<"1", ",", "1">>,
     <<"3", ",", "1", ",", "1">>, <<"1", ",", ",", "1">>}

ParsedQueries ==
    [datapath : DatapathVals, start : StartVals, mip : MipVals, size : VolsizeVals]

NextHandle ==
    \E kind \in {"metainfo", "data", "zip", "static"},
       parsed_query \in ParsedQueries,
       core \in {"volume", "TypeError", "ValueError"} :
        Handle(kind, parsed_query, core)

SpecHandle == Init /\ [][NextHandle]_vars

\* The size of the volume of the dataset, in the order of start.
VolumeSize == <<2, 2, 2>>

\* The call of core.get the last request made, if it made one.
CoreGetCalled == response.op = "handle" /\ response.val # <<>>

\* C13: core.get is called only with a start of exactly 3 integers, an
\* extent of exactly 3 integers and a mip level, all inside the volume.
C13_CoreGetValidated ==
    CoreGetCalled =>
        LET call == response.val[1]
        IN /\ Len(call.start) = 3
           /\ Len(call.volsize) = 3
           /\ call.w >= 0
           /\ \A i \in 1..3 :
                 /\ call.start[i] >= 0
                 /\ call.volsize[i] >= 0
                 /\ call.start[i] + call.volsize[i] <= VolumeSize[i]

\* What the handler does keep from core.get: a request that lacks a key
\* or holds a piece that is no integer.
C13_CoreGetWellTyped ==
    response.op = "handle" =>
        LET parsed_query == response.input.parsed_query
        IN /\ CoreGetCalled =>
                /\ response.input.kind \in {"data", "zip"}
                /\ \A k \in {"datapath", "start", "mip", "size"} :
                      parsed_query[k] # <<>>
                /\ AllInt(parsed_query.start) /\ AllInt(parsed_query.size)
                /\ IsInt(parsed_query.mip)
           /\ (\E k \in {"datapath", "start", "mip", "size"} : parsed_query[k] = <<>>)
                => response.val = <<>>

\* core.get was called with a start of two integers.
C13_ReachedWithTwo ==
    /\ CoreGetCalled
    /\ response.val[1].start = <<1, 2>>

(***************************************************************************)
(* The order of the checks of update_source.                               *)
(***************************************************************************)
\* The checks in the order of the claim, and for keywords the checks
\* that would fail on them, each taken alone.
CheckOrder == <<"source", "type", "blocksize", "full size", "within">>

CheckTerm == <<"source", "type", "blocksize", "full size", "full size">>

Failing(keywords) ==
    LET block == keywords.blocksize
        full_size == IF keywords.size = <<>> THEN <<FullSizeOf(keywords)>>
                     ELSE keywords.size
        lengths == block # <<>> /\ Len(block[1]) = 3 /\ Len(full_size[1]) = 3
    IN {i \in 1..5 :
          \/ i = 1 /\ keywords.source \notin Members(SOURCE_LIST)
          \/ i = 2 /\ keywords.type \notin Members(TYPE_LIST)
          \/ i = 3 /\ (block = <<>> \/ Len(block[1]) # 3)
          \/ i = 4 /\ Len(full_size[1]) # 3
          \/ i = 5 /\ lengths
                   /\ \E j \in 1..3 : ~Leq(Uint32(block[1][j]), full_size[1][j])}

FirstFailing(keywords) ==
    CHOOSE i \in Failing(keywords) : \A j \in Failing(keywords) : i <= j

\* C14: update_source checks in the order source, type, length of the
\* block, length of the full size, block within full size; the first
\* check that fails raises its error and the checks after it are not
\* come to, so the bound check is come to only after both lengths are 3;
\* TYPE, SOURCE, BLOCK and SIZE are assigned only when no check failed,
\* and are left as they were when one did.
C14_FailFast ==
    /\ [](response.op = "update_source" =>
            LET keywords == response.input
                failing == Failing(keywords)
            IN /\ response.out = "error" <=> failing # {}
               /\ response.out = "error" =>
                     /\ response.evaluated = SubSeq(CheckOrder, 1, FirstFailing(keywords))
                     /\ response.err.term = CheckTerm[FirstFailing(keywords)]
               /\ response.out = "ok" => response.evaluated = CheckOrder
               /\ "within" \in Members(response.evaluated) =>
                     /\ Len(keywords.blocksize[1]) = 3
                     /\ Len(FullSizeOf(keywords)) = 3)
    /\ [][response'.op = "update_source" =>
            LET keywords == response'.input
            IN  IF response'.out = "error"
                THEN query' = query
                ELSE /\ query'.updated
                     /\ query'.TYPE = keywords.type
                     /\ query'.SOURCE = keywords.source
                     /\ query'.BLOCK = [i \in 1..3 |-> Uint32(keywords.blocksize[1][i])]
                     /\ query'.SIZE = [z |-> FullSizeOf(keywords)[1],
                                       y |-> FullSizeOf(keywords)[2],
                                       x |-> FullSizeOf(keywords)[3]]
                     /\ query'.keywords = query.keywords]_vars

\* Keywords on which every check but the last would fail raised the error
\* of the source, on a Query that an earlier call had updated.
C14_Witness ==
    /\ response.op = "update_source"
    /\ response.out = "error"
    /\ Failing(response.input) = {1, 2, 3}
    /\ response.evaluated = <<"source">>
    /\ query.updated
====
